---------------------------- MODULE Spec2Model ----------------------------
(***************************************************************************)
(* A model of the Oasis problem layer: problems/__init__.py (default       *)
(* parameters, rank-gated logging, memory probe, recursive_update, default *)
(* hooks) and problems/Lshape.py (L-shaped mesh, parameter overrides,      *)
(* boundary conditions, hooks).                                            *)
(*                                                                         *)
(* Python values are encoded as follows.  A dict is a TLA+ function whose  *)
(* domain is its key set.  Where a dict may hold both plain values and     *)
(* nested dicts, each value is tagged: Leaf(v) is a non-dict value, and    *)
(* Dict(f) is the dict f.  None is the string "None".                      *)
(***************************************************************************)
EXTENDS Integers, Sequences, FiniteSets, TLC

VARIABLES
    \* recursive_update(dst, src)
    dst_in,         \* the value dst had when recursive_update was called
    src,            \* the src argument
    dst,            \* the dst object, updated in place and returned
    mpc,            \* "call" before the call, "done" after it returned
    \* NS_parameters and a problem's override
    NS_parameters,  \* the global parameter dict
    override,       \* the dict a problem module passes to NS_parameters.update
    ppc,            \* "default" before the problem module ran, "loaded" after
    \* rank-gated logging by cooperating processes
    nprocs,         \* the size of mpi_comm_world
    call,           \* the call every process makes: [kind, s, flag, usage, usage_vm]
    called,         \* the ranks that have made the call
    out,            \* per rank, the lines it has printed
    usage_obj,      \* per rank, its OasisMemoryUsage object
    \* one process's OasisMemoryUsage object over a sequence of probes
    oasis_memory,   \* the object's fields (no fields before construction)
    mrank,          \* the rank of the process
    mout,           \* the lines printed by the latest probe
    \* Lshape's mesh(Nx, Ny)
    roundoff,       \* the rounding error of the mesh's vertex coordinates
    mf1,            \* the MeshFunction over the cells, once created
    cursor,         \* the first cell Submesh.mark has not visited yet
    submesh,        \* the cells of the SubMesh returned
    mesh_pc,        \* "start", "marking", "marked", "done"
    \* create_bcs and the application of its constraints
    bproblem,       \* the problem module whose create_bcs is bound
    sys_comp,       \* the list of unknown names
    bcs,            \* the mapping create_bcs returned
    applied,        \* the latest evaluation of a constraint's predicate
    bpc,            \* "call" before create_bcs is called, "done" after
    \* the solver driver and the hooks of the problem module
    problem,        \* the problem module the driver imported
    ns,             \* the driver's run-time namespace, passed as **NS_namespace
    p_in_t,         \* Lshape.p_in.t
    plots,          \* the titles of the plots drawn so far
    ret,            \* what the latest hook returned
    err,            \* the exception that ended the run, or None
    dpc             \* the driver's position: the hook or step it does next

mergeVars == <<dst_in, src, dst, mpc>>
paramVars == <<NS_parameters, override, ppc>>
logVars == <<nprocs, call, called, out, usage_obj>>
memVars == <<oasis_memory, mrank, mout>>
meshVars == <<roundoff, mf1, cursor, submesh, mesh_pc>>
bcsVars == <<bproblem, sys_comp, bcs, applied, bpc>>
driverVars == <<problem, ns, p_in_t, plots, ret, err, dpc>>
vars == <<mergeVars, paramVars, logVars, memVars, meshVars, bcsVars, driverVars>>

\* everything but one group
exceptMerge == <<paramVars, logVars, memVars, meshVars, bcsVars, driverVars>>
exceptParam == <<mergeVars, logVars, memVars, meshVars, bcsVars, driverVars>>
exceptLog == <<mergeVars, paramVars, memVars, meshVars, bcsVars, driverVars>>
exceptMem == <<mergeVars, paramVars, logVars, meshVars, bcsVars, driverVars>>
exceptMesh == <<mergeVars, paramVars, logVars, memVars, bcsVars, driverVars>>
exceptBcs == <<mergeVars, paramVars, logVars, memVars, meshVars, driverVars>>
exceptDriver == <<mergeVars, paramVars, logVars, memVars, meshVars, bcsVars>>

----------------------------------------------------------------------------
(* Python values *)

None == "None"
EmptyDict == <<>>

Leaf(v) == <<"leaf", v>>
Dict(f) == <<"dict", f>>

\* isinstance(val, dict)
isdict(val) == val[1] = "dict"

\* d[key] = val
setitem(d, key, val) ==
    [k \in DOMAIN d \cup {key} |-> IF k = key THEN val ELSE d[k]]

----------------------------------------------------------------------------
(* recursive_update *)

\* a deep update that forgets to recurse: every src value replaces
recursive_update_replacing(d, s) ==
    [k \in DOMAIN d \cup DOMAIN s |-> IF k \in DOMAIN s THEN s[k] ELSE d[k]]

RECURSIVE recursive_update(_, _)
RECURSIVE update_items(_, _, _)

\* the loop "for key, val in src.items()" over the keys still to visit
update_items(d, s, keys) ==
    IF keys = {} THEN d
    ELSE LET key == CHOOSE k \in keys : TRUE
             val == s[key]
             new == IF key \in DOMAIN d /\ isdict(val) /\ isdict(d[key])
                    THEN Dict(recursive_update(d[key][2], val[2]))
                    ELSE val
         IN  update_items(setitem(d, key, new), s, keys \ {key})

recursive_update(d, s) == update_items(d, s, DOMAIN s)

\* dict.update(other): every key of other is (re)bound to other's value
dict_update(d, other) ==
    [k \in DOMAIN d \cup DOMAIN other |->
        IF k \in DOMAIN other THEN other[k] ELSE d[k]]

----------------------------------------------------------------------------
(* Inputs of recursive_update: nested mappings of depth at most two *)

MaxVal == 1

OuterKeys == {"a", "b"}
InnerKeys == {"x", "y"}
LeafValues == {Leaf(n) : n \in 0..MaxVal}

PartialMaps(K, V) == UNION {[D -> V] : D \in SUBSET K}

FlatMaps == PartialMaps(InnerKeys, LeafValues)
NestedMaps == PartialMaps(OuterKeys, LeafValues \cup {Dict(f) : f \in FlatMaps})

MergeInit ==
    /\ dst_in \in NestedMaps
    /\ src \in NestedMaps
    /\ dst = dst_in
    /\ mpc = "call"

MergeIdle ==
    /\ dst_in = EmptyDict
    /\ src = EmptyDict
    /\ dst = EmptyDict
    /\ mpc = "idle"

CallRecursiveUpdate ==
    /\ mpc = "call"
    /\ dst' = recursive_update(dst, src)
    /\ mpc' = "done"
    /\ UNCHANGED <<dst_in, src, exceptMerge>>

----------------------------------------------------------------------------
(* NS_parameters and the override of a problem module *)

DefaultKrylovSolvers ==
    [ monitor_convergence     |-> Leaf("False"),
      report                  |-> Leaf("False"),
      error_on_nonconvergence |-> Leaf("False"),
      nonzero_initial_guess   |-> Leaf("True"),
      maximum_iterations      |-> Leaf("200"),
      relative_tolerance      |-> Leaf("1e-8"),
      absolute_tolerance      |-> Leaf("1e-8") ]

DefaultParameters ==
    [ nu                      |-> Leaf("0.01"),
      t                       |-> Leaf("0.0"),
      tstep                   |-> Leaf("0"),
      T                       |-> Leaf("1.0"),
      dt                      |-> Leaf("0.01"),
      AB_projection_pressure  |-> Leaf("False"),
      velocity_degree         |-> Leaf("2"),
      pressure_degree         |-> Leaf("1"),
      solver                  |-> Leaf("IPCS_ABCN"),
      max_iter                |-> Leaf("1"),
      max_error               |-> Leaf("1e-6"),
      iters_on_first_timestep |-> Leaf("2"),
      use_krylov_solvers      |-> Leaf("False"),
      low_memory_version      |-> Leaf("False"),
      print_intermediate_info |-> Leaf("10"),
      print_velocity_pressure_convergence |-> Leaf("False"),
      velocity_update_type    |-> Leaf("default"),
      plot_interval           |-> Leaf("10"),
      checkpoint              |-> Leaf("10"),
      save_step               |-> Leaf("10"),
      folder                  |-> Leaf("results"),
      restart_folder          |-> Leaf("None"),
      output_timeseries_as_vector |-> Leaf("True"),
      krylov_solvers          |-> Dict(DefaultKrylovSolvers) ]

\* the dict Lshape.py passes to NS_parameters.update
LshapeOverride ==
    [ nu                   |-> Leaf("0.005"),
      T                    |-> Leaf("10"),
      dt                   |-> Leaf("0.01"),
      Re                   |-> Leaf("200.0"),
      Nx                   |-> Leaf("40"),
      Ny                   |-> Leaf("40"),
      folder               |-> Leaf("Lshape_results"),
      max_iter             |-> Leaf("1"),
      plot_interval        |-> Leaf("1"),
      velocity_degree      |-> Leaf("2"),
      velocity_update_type |-> Leaf("lumping"),
      use_krylov_solvers   |-> Leaf("True") ]

\* Override sets a problem module may pass: Lshape's own, and overrides of a few
\* top-level fields together with some fields of krylov_solvers.
OverrideTopKeys == {"nu", "folder"}
OverrideKrylovKeys ==
    {"monitor_convergence", "maximum_iterations", "relative_tolerance", "solver_type"}
OverrideValues == {Leaf("overridden")}

OverrideSets ==
    {LshapeOverride} \cup
    { dict_update(top, nested) :
        top \in PartialMaps(OverrideTopKeys, OverrideValues),
        nested \in {EmptyDict} \cup
                   { [krylov_solvers |-> Dict(f)] :
                       f \in PartialMaps(OverrideKrylovKeys, OverrideValues) } }

ParamInit ==
    /\ NS_parameters = DefaultParameters
    /\ override \in OverrideSets
    /\ ppc = "default"

ParamIdle ==
    /\ NS_parameters = EmptyDict
    /\ override = EmptyDict
    /\ ppc = "idle"

\* the module-level statement NS_parameters.update(dict(...)) of a problem module
ProblemUpdate ==
    /\ ppc = "default"
    /\ NS_parameters' = dict_update(NS_parameters, override)
    /\ ppc' = "loaded"
    /\ UNCHANGED <<override, exceptParam>>

----------------------------------------------------------------------------
(* Rank-gated printing *)

\* a printed line: the colour format applied to text; fields holds the numbers
\* formatted into the memory line (empty for a plain status line)
Line(colour, text, fields) == [colour |-> colour, text |-> text, fields |-> fields]

\* info_blue with the rank test dropped
info_blue_every_rank(rank, s, check) ==
    IF check THEN <<Line("BLUE", s, <<>>)>> ELSE <<>>

\* the lines info_blue(s, check) prints on the process of this rank
info_blue(rank, s, check) ==
    IF rank = 0 /\ check THEN <<Line("BLUE", s, <<>>)>> ELSE <<>>

info_green(rank, s, check) ==
    IF rank = 0 /\ check THEN <<Line("GREEN", s, <<>>)>> ELSE <<>>

info_red(rank, s, check) ==
    IF rank = 0 /\ check THEN <<Line("RED", s, <<>>)>> ELSE <<>>

\* OasisTimer.__init__(task, verbose): Timer.__init__ prints nothing
OasisTimer_init(rank, task, verbose) == info_blue(rank, task, verbose)

\* the text and numbers of the line OasisMemoryUsage.__call__ formats
memory_line(s, self) ==
    [text |-> s,
     fields |-> <<self.memory - self.prev, self.memory,
                  self.memory_vm - self.prev_vm, self.memory_vm>>]

\* __call__ with prev taken after memory has been overwritten
OasisMemoryUsage_call_prev_late(self, rank, s, verbose, total, total_vm) ==
    LET new == [memory |-> total, memory_vm |-> total_vm,
                prev |-> total, prev_vm |-> total_vm]
    IN  [self |-> new,
         out |-> IF rank = 0 /\ verbose
                 THEN <<Line("BLUE", s, memory_line(s, new).fields)>>
                 ELSE <<>>]

\* OasisMemoryUsage.__call__(s, verbose) on the process of this rank; total and
\* total_vm are what MPI.sum returns for getMemoryUsage() and
\* getMemoryUsage(False).  Yields the object's new fields and the lines printed.
OasisMemoryUsage_call(self, rank, s, verbose, total, total_vm) ==
    LET new == [memory |-> total, memory_vm |-> total_vm,
                prev |-> self.memory, prev_vm |-> self.memory_vm]
        ln  == memory_line(s, new)
    IN  [self |-> new,
         out |-> IF rank = 0 /\ verbose
                 THEN LET printed == info_blue(rank, ln.text, TRUE)
                      IN  [i \in DOMAIN printed |->
                              [printed[i] EXCEPT !.fields = ln.fields]]
                 ELSE <<>>]

\* OasisMemoryUsage.__init__(s): memory = memory_vm = 0, then self(s)
OasisMemoryUsage_init(rank, s, total, total_vm) ==
    OasisMemoryUsage_call([memory |-> 0, memory_vm |-> 0], rank, s, FALSE,
                          total, total_vm)

MaxMem == 2
MemValues == 0..MaxMem

----------------------------------------------------------------------------
(* N cooperating processes each make the same call *)

ProcessCounts == {1, 2, 16}
CallKinds == {"info_blue", "info_green", "info_red", "OasisTimer", "OasisMemoryUsage"}
Colour(kind) ==
    CASE kind = "info_green" -> "GREEN"
      [] kind = "info_red" -> "RED"
      [] OTHER -> "BLUE"

LogInit ==
    /\ nprocs \in ProcessCounts
    /\ \E kind \in CallKinds, flag \in BOOLEAN, total \in {MaxMem} :
          call = [kind |-> kind, s |-> "status", flag |-> flag,
                  usage |-> IF kind = "OasisMemoryUsage" THEN total ELSE 0,
                  usage_vm |-> IF kind = "OasisMemoryUsage" THEN total + 1 ELSE 0]
    /\ called = {}
    /\ out = [r \in 0..(nprocs - 1) |-> <<>>]
    \* every process built its oasis_memory object when it imported the module
    /\ usage_obj = [r \in 0..(nprocs - 1) |->
                      OasisMemoryUsage_init(r, "Start", 1, 1).self]

LogIdle ==
    /\ nprocs = 0
    /\ call = None
    /\ called = {}
    /\ out = <<>>
    /\ usage_obj = <<>>

Calls(rank, kind) ==
    /\ rank \notin called
    /\ call.kind = kind
    /\ called' = called \cup {rank}
    /\ UNCHANGED <<nprocs, call, exceptLog>>

CallInfoBlue(rank) ==
    /\ Calls(rank, "info_blue")
    /\ out' = [out EXCEPT ![rank] = @ \o info_blue(rank, call.s, call.flag)]
    /\ UNCHANGED usage_obj

CallInfoGreen(rank) ==
    /\ Calls(rank, "info_green")
    /\ out' = [out EXCEPT ![rank] = @ \o info_green(rank, call.s, call.flag)]
    /\ UNCHANGED usage_obj

CallInfoRed(rank) ==
    /\ Calls(rank, "info_red")
    /\ out' = [out EXCEPT ![rank] = @ \o info_red(rank, call.s, call.flag)]
    /\ UNCHANGED usage_obj

NewOasisTimer(rank) ==
    /\ Calls(rank, "OasisTimer")
    /\ out' = [out EXCEPT ![rank] = @ \o OasisTimer_init(rank, call.s, call.flag)]
    /\ UNCHANGED usage_obj

CallOasisMemoryUsage(rank) ==
    /\ Calls(rank, "OasisMemoryUsage")
    /\ LET r == OasisMemoryUsage_call(usage_obj[rank], rank, call.s, call.flag,
                                      call.usage, call.usage_vm)
       IN  /\ usage_obj' = [usage_obj EXCEPT ![rank] = r.self]
           /\ out' = [out EXCEPT ![rank] = @ \o r.out]

----------------------------------------------------------------------------
(* One process probes its memory use again and again *)

\* an object that has no attributes yet
NoFields == <<>>

MemInit ==
    /\ oasis_memory = NoFields
    /\ mrank \in {0, 1}
    /\ mout = <<>>

MemIdle ==
    /\ oasis_memory = NoFields
    /\ mrank = 0
    /\ mout = <<>>

\* oasis_memory = OasisMemoryUsage('Start')
NewOasisMemoryUsage ==
    /\ oasis_memory = NoFields
    /\ \E total \in MemValues, total_vm \in MemValues :
          LET r == OasisMemoryUsage_init(mrank, "Start", total, total_vm)
          IN  /\ oasis_memory' = r.self
              /\ mout' = r.out
    /\ UNCHANGED <<mrank, exceptMem>>

\* oasis_memory(s, verbose)
Probe ==
    /\ oasis_memory # NoFields
    /\ \E total \in MemValues, total_vm \in MemValues, verbose \in BOOLEAN :
          LET r == OasisMemoryUsage_call(oasis_memory, mrank, "probe", verbose,
                                         total, total_vm)
          IN  /\ oasis_memory' = r.self
              /\ mout' = r.out
    /\ UNCHANGED <<mrank, exceptMem>>

----------------------------------------------------------------------------
(* Lshape: the mesh *)

Nx == 40
Ny == 40

\* Lengths are integers: the unit square has side Scale, so that the vertex
\* coordinates and 0.25 are whole numbers, and DOLFIN_EPS is a few units.
Scale == 100 * Nx * Ny
Quarter == Scale \div 4
DOLFIN_EPS == 3
MaxRoundoff == 1

\* the cells of UnitSquareMesh(Nx, Ny): square number c \div 2 (row by row) is
\* cut along its diagonal into the triangles 2c and 2c + 1
NCells == 2 * Nx * Ny
Cells == 0..(NCells - 1)
Column(c) == (c \div 2) % Nx
Row(c) == (c \div 2) \div Nx

\* the grid vertices <<i, j>> of a cell
CellVertices(c) ==
    LET i == Column(c)
        j == Row(c)
    IN  IF c % 2 = 0
        THEN {<<i, j>>, <<i + 1, j>>, <<i + 1, j + 1>>}
        ELSE {<<i, j>>, <<i, j + 1>>, <<i + 1, j + 1>>}

\* the exact position of grid vertex v, and the position the mesh stores
Exact(v) == <<v[1] * (Scale \div Nx), v[2] * (Scale \div Ny)>>
Stored(v, e) == <<Exact(v)[1] + e[1], Exact(v)[2] + e[2]>>

\* Submesh.inside compared without the DOLFIN_EPS tolerance
inside_no_tolerance(x, on_boundary) == x[1] > Quarter /\ x[2] > Quarter

\* Submesh.inside(x, on_boundary)
Submesh_inside(x, on_boundary) ==
    x[1] > Quarter - DOLFIN_EPS /\ x[2] > Quarter - DOLFIN_EPS

\* SubDomain.mark on a cell function: a cell is marked when all of its vertices
\* are inside
AllVerticesInside(c, e) ==
    \A v \in CellVertices(c) : Submesh_inside(Stored(v, e), FALSE)

MeshInit ==
    /\ roundoff \in (-MaxRoundoff..MaxRoundoff) \X (-MaxRoundoff..MaxRoundoff)
    /\ mf1 = <<>>
    /\ cursor = 0
    /\ submesh = {}
    /\ mesh_pc = "start"

MeshIdle ==
    /\ roundoff = <<0, 0>>
    /\ mf1 = <<>>
    /\ cursor = 0
    /\ submesh = {}
    /\ mesh_pc = "idle"

\* mesh_ = UnitSquareMesh(Nx, Ny); mf1 = MeshFunction(...); mf1.set_all(0)
MeshCreate ==
    /\ mesh_pc = "start"
    /\ mf1' = [c \in Cells |-> 0]
    /\ cursor' = 0
    /\ mesh_pc' = "marking"
    /\ UNCHANGED <<roundoff, submesh, exceptMesh>>

\* subm.mark(mf1, 1): its loop over the cells, one row of squares at a step
MarkRow ==
    /\ mesh_pc = "marking"
    /\ cursor < NCells
    /\ LET row == cursor..(cursor + 2 * Nx - 1)
       IN  /\ mf1' = [c \in Cells |->
                        IF c \in row /\ AllVerticesInside(c, roundoff)
                        THEN 1
                        ELSE mf1[c]]
           /\ cursor' = cursor + 2 * Nx
    /\ UNCHANGED <<roundoff, submesh, mesh_pc, exceptMesh>>

MarkDone ==
    /\ mesh_pc = "marking"
    /\ cursor = NCells
    /\ mesh_pc' = "marked"
    /\ UNCHANGED <<roundoff, mf1, cursor, submesh, exceptMesh>>

\* return SubMesh(mesh_, mf1, 0): the cells whose marker is 0
MeshReturn ==
    /\ mesh_pc = "marked"
    /\ submesh' = {c \in Cells : mf1[c] = 0}
    /\ mesh_pc' = "done"
    /\ UNCHANGED <<roundoff, mf1, cursor, exceptMesh>>

----------------------------------------------------------------------------
(* Boundary conditions *)

Range(seq) == {seq[i] : i \in DOMAIN seq}

\* the default create_bcs with the last unknown left out
create_bcs_drops_last(sc) ==
    [ui \in {sc[i] : i \in 1..(Len(sc) - 1)} |-> <<>>]

\* problems.create_bcs(sys_comp, **NS_namespace)
create_bcs(sc) == [ui \in Range(sc) |-> <<>>]

\* near(x, x0) of the finite-element library, with its default tolerance
near(x, x0) == x0 - DOLFIN_EPS < x /\ x < x0 + DOLFIN_EPS

\* Lshape.inlet, Lshape.outlet, Lshape.walls
inlet(x, on_boundary) == near(x[2] - Scale, 0) /\ on_boundary

outlet(x, on_boundary) == near(x[1] - Scale, 0) /\ on_boundary

walls(x, on_boundary) ==
    \/ near(x[1], 0)
    \/ near(x[2], 0)
    \/ ( (x[1] > Quarter - 5 * DOLFIN_EPS /\ x[2] > Quarter - 5 * DOLFIN_EPS)
         /\ on_boundary )

\* DirichletBC(space, value, sub_domain)
DirichletBC(space, value, sub_domain) ==
    [space |-> space, value |-> value, sub_domain |-> sub_domain]

\* Lshape.create_bcs(V, Q, sys_comp, **NS_namespace)
Lshape_create_bcs(V, Q, sc) ==
    LET bcs0 == [ui \in Range(sc) |-> <<>>]
        bc0 == DirichletBC(V, "0.0", "walls")
        pc0 == DirichletBC(Q, "p_in", "inlet")
        pc1 == DirichletBC(Q, "0.0", "outlet")
        bcs1 == setitem(bcs0, "u0", <<bc0>>)
        bcs2 == setitem(bcs1, "u1", <<bc0>>)
    IN  setitem(bcs2, "p", <<pc0, pc1>>)

\* the value of a constraint's predicate at point x
Selects(sub_domain, x, on_boundary) ==
    CASE sub_domain = "walls" -> walls(x, on_boundary)
      [] sub_domain = "inlet" -> inlet(x, on_boundary)
      [] sub_domain = "outlet" -> outlet(x, on_boundary)

MaxLen == 3
UnknownNames == {"u0", "u1", "p", "alfa"}
Problems == {"problems", "Lshape"}
SamplePoints ==
    {0, Quarter, Scale \div 2, Scale} \X {0, Quarter, Scale \div 2, Scale}
NotApplied ==
    [sub_domain |-> None, x |-> <<0, 0>>, on_boundary |-> FALSE, selected |-> FALSE]

BcsInit ==
    /\ bproblem \in Problems
    /\ sys_comp \in UNION {[1..n -> UnknownNames] : n \in 0..MaxLen}
    /\ bcs = EmptyDict
    /\ applied = NotApplied
    /\ bpc = "call"

BcsIdle ==
    /\ bproblem = None
    /\ sys_comp = <<>>
    /\ bcs = EmptyDict
    /\ applied = NotApplied
    /\ bpc = "idle"

\* bcs = create_bcs(**vars()) with the create_bcs of the problem module
CallCreateBcs ==
    /\ bpc = "call"
    /\ bcs' = IF bproblem = "Lshape"
              THEN Lshape_create_bcs("V", "Q", sys_comp)
              ELSE create_bcs(sys_comp)
    /\ bpc' = "done"
    /\ UNCHANGED <<bproblem, sys_comp, applied, exceptBcs>>

\* the library evaluates the predicate of one constraint of bcs at a mesh point
ApplyConstraint ==
    /\ bpc = "done"
    /\ \E ui \in DOMAIN bcs, x \in SamplePoints, on_boundary \in BOOLEAN :
          \E i \in DOMAIN bcs[ui] :
              applied' = [sub_domain |-> bcs[ui][i].sub_domain,
                          x |-> x,
                          on_boundary |-> on_boundary,
                          selected |-> Selects(bcs[ui][i].sub_domain, x, on_boundary)]
    /\ UNCHANGED <<bproblem, sys_comp, bcs, bpc, exceptBcs>>

----------------------------------------------------------------------------
(* Hooks *)

\* What a hook call yields: the value returned, the keyword arguments (their
\* objects possibly changed in place) and the module-level state g =
\* [p_in_t, plots] it may have changed.
HookResult(r, kw, g) == [ret |-> r, kw |-> kw, g |-> g]

\* the default hooks of problems/__init__.py
initialize(kw, g) == HookResult(Leaf(None), kw, g)

velocity_tentative_hook(kw, g) == HookResult(Leaf(None), kw, g)

pressure_hook(kw, g) == HookResult(Leaf(None), kw, g)

scalar_hook(kw, g) == HookResult(Leaf(None), kw, g)

\* a default start_timestep_hook that carries Lshape's body
start_timestep_hook_sets_p_in(kw, g) ==
    HookResult(Leaf(None), kw, [g EXCEPT !.p_in_t = kw["t"]])

start_timestep_hook(kw, g) == HookResult(Leaf(None), kw, g)

temporal_hook(kw, g) == HookResult(Leaf(None), kw, g)

pre_solve_hook(kw, g) == HookResult(Dict(EmptyDict), kw, g)

theend_hook(kw, g) == HookResult(Leaf(None), kw, g)

\* the hooks Lshape.py defines
ZeroFunction == -1

\* pre_solve_hook that forgets to return uv
Lshape_pre_solve_hook_without_uv(kw, g) ==
    HookResult(Dict([Vv |-> "CG1"]), kw, g)

Lshape_pre_solve_hook(kw, g) ==
    HookResult(Dict([Vv |-> "CG1", uv |-> ZeroFunction]), kw, g)

\* start_timestep_hook that leaves p_in alone
Lshape_start_timestep_hook_noop(kw, g) == HookResult(Leaf(None), kw, g)

Lshape_start_timestep_hook(kw, g) ==
    HookResult(Leaf(None), kw, [g EXCEPT !.p_in_t = kw["t"]])

Lshape_temporal_hook(kw, g) ==
    IF kw["tstep"] % kw["plot_interval"] = 0
    THEN HookResult(Leaf(None),
                    [kw EXCEPT !["uv"] = kw["u_"]],
                    [g EXCEPT !.plots = @ \o <<"Pressure", "Velocity">>])
    ELSE HookResult(Leaf(None), kw, g)

\* the hooks a problem module defines itself; the others come from
\* "from problems import *"
Overridden(prob) ==
    IF prob = "Lshape"
    THEN {"pre_solve_hook", "start_timestep_hook", "temporal_hook"}
    ELSE {}

\* the named parameters of the hook bound to this name (besides **NS_namespace)
Parameters(prob, name) ==
    IF name \notin Overridden(prob) THEN {}
    ELSE CASE name = "pre_solve_hook" -> {"mesh"}
           [] name = "start_timestep_hook" -> {"t"}
           [] name = "temporal_hook" ->
                {"tstep", "q_", "u_", "uv", "Vv", "plot_interval"}

\* the call name(**ns) with the hook the problem module binds to that name
Bound(prob, name, kw, g) ==
    IF name \in Overridden(prob)
    THEN CASE name = "pre_solve_hook" -> Lshape_pre_solve_hook(kw, g)
           [] name = "start_timestep_hook" -> Lshape_start_timestep_hook(kw, g)
           [] name = "temporal_hook" -> Lshape_temporal_hook(kw, g)
    ELSE CASE name = "initialize" -> initialize(kw, g)
           [] name = "velocity_tentative_hook" -> velocity_tentative_hook(kw, g)
           [] name = "pressure_hook" -> pressure_hook(kw, g)
           [] name = "scalar_hook" -> scalar_hook(kw, g)
           [] name = "start_timestep_hook" -> start_timestep_hook(kw, g)
           [] name = "temporal_hook" -> temporal_hook(kw, g)
           [] name = "pre_solve_hook" -> pre_solve_hook(kw, g)
           [] name = "theend_hook" -> theend_hook(kw, g)

----------------------------------------------------------------------------
(* The solver driver: the order in which it calls the hooks *)

MaxSteps == 4
MaxPlotInterval == 3

DriverInit ==
    /\ problem \in Problems
    /\ \E interval \in 1..MaxPlotInterval, scalars \in {<<>>, <<"alfa">>} :
          ns = [ t |-> 0, tstep |-> 0, q_ |-> 0, u_ |-> 0,
                 mesh |-> "mesh", V |-> "V", Q |-> "Q",
                 sys_comp |-> <<"u0", "u1", "p">> \o scalars,
                 scalar_components |-> scalars,
                 plot_interval |-> interval ]
    /\ p_in_t = 0
    /\ plots = <<>>
    /\ ret = Leaf(None)
    /\ err = None
    /\ dpc = "initialize"

DriverIdle ==
    /\ problem = None
    /\ ns = EmptyDict
    /\ p_in_t = 0
    /\ plots = <<>>
    /\ ret = Leaf(None)
    /\ err = None
    /\ dpc = "idle"

\* The driver calls name(**ns).  A named parameter that ns does not bind is a
\* TypeError, which ends the run.  A mapping returned by pre_solve_hook is
\* merged into ns.
CallHook(name, next) ==
    /\ dpc = name
    /\ IF Parameters(problem, name) \subseteq DOMAIN ns
       THEN LET r == Bound(problem, name, ns, [p_in_t |-> p_in_t, plots |-> plots])
            IN  /\ ns' = IF name = "pre_solve_hook"
                         THEN dict_update(r.kw, r.ret[2])
                         ELSE r.kw
                /\ p_in_t' = r.g.p_in_t
                /\ plots' = r.g.plots
                /\ ret' = r.ret
                /\ err' = None
                /\ dpc' = next
       ELSE /\ err' = "TypeError"
            /\ dpc' = "crashed"
            /\ UNCHANGED <<ns, p_in_t, plots, ret>>
    /\ UNCHANGED <<problem, exceptDriver>>

\* a step of the driver itself
DriverStep(at, next) ==
    /\ dpc = at
    /\ dpc' = next
    /\ UNCHANGED <<problem, p_in_t, plots, ret, err, exceptDriver>>

CallInitialize == CallHook("initialize", "pre_solve_hook")

CallPreSolveHook == CallHook("pre_solve_hook", "advance")

\* while t < T: t += dt; tstep += 1  (t is counted in units of dt)
AdvanceTime ==
    /\ ns["tstep"] < MaxSteps
    /\ DriverStep("advance", "start_timestep_hook")
    /\ ns' = [ns EXCEPT !["t"] = @ + 1, !["tstep"] = @ + 1]

CallStartTimestepHook == CallHook("start_timestep_hook", "velocity_tentative_hook")

CallVelocityTentativeHook == CallHook("velocity_tentative_hook", "velocity_solve")

SolveVelocity ==
    /\ DriverStep("velocity_solve", "pressure_hook")
    /\ ns' = [ns EXCEPT !["u_"] = ns["tstep"]]

CallPressureHook == CallHook("pressure_hook", "pressure_solve")

SolvePressure ==
    /\ DriverStep("pressure_solve", "scalar_hook")
    /\ ns' = [ns EXCEPT !["q_"] = ns["tstep"]]

CallScalarHook ==
    /\ ns["scalar_components"] # <<>>
    /\ CallHook("scalar_hook", "scalar_solve")

SolveScalar ==
    /\ DriverStep("scalar_solve", "temporal_hook")
    /\ UNCHANGED ns

SkipScalar ==
    /\ ns["scalar_components"] = <<>>
    /\ DriverStep("scalar_hook", "temporal_hook")
    /\ UNCHANGED ns

CallTemporalHook == CallHook("temporal_hook", "advance")

CallTheendHook ==
    /\ ns["tstep"] >= MaxSteps
    /\ dpc = "advance"
    /\ LET r == Bound(problem, "theend_hook", ns,
                      [p_in_t |-> p_in_t, plots |-> plots])
       IN  /\ ns' = r.kw
           /\ p_in_t' = r.g.p_in_t
           /\ plots' = r.g.plots
           /\ ret' = r.ret
    /\ dpc' = "done"
    /\ UNCHANGED <<problem, err, exceptDriver>>

----------------------------------------------------------------------------
(* Specifications *)

\* the initial condition of a specification that exercises one part: the
\* variables of every other part are idle
Idle(part) ==
    /\ IF part = "merge" THEN TRUE ELSE MergeIdle
    /\ IF part = "param" THEN TRUE ELSE ParamIdle
    /\ IF part = "log" THEN TRUE ELSE LogIdle
    /\ IF part = "mem" THEN TRUE ELSE MemIdle
    /\ IF part = "mesh" THEN TRUE ELSE MeshIdle
    /\ IF part = "bcs" THEN TRUE ELSE BcsIdle
    /\ IF part = "driver" THEN TRUE ELSE DriverIdle

InitMerge == MergeInit /\ Idle("merge")

SpecMerge == InitMerge /\ [][CallRecursiveUpdate]_vars

InitParam == ParamInit /\ Idle("param")

SpecParams == InitParam /\ [][ProblemUpdate]_vars

LogNext ==
    \E rank \in 0..(nprocs - 1) :
        \/ CallInfoBlue(rank)
        \/ CallInfoGreen(rank)
        \/ CallInfoRed(rank)
        \/ NewOasisTimer(rank)
        \/ CallOasisMemoryUsage(rank)

InitLog == LogInit /\ Idle("log")

SpecLog == InitLog /\ [][LogNext]_vars

MemNext == NewOasisMemoryUsage \/ Probe

InitMem == MemInit /\ Idle("mem")

SpecMem == InitMem /\ [][MemNext]_vars

MeshNext == MeshCreate \/ MarkRow \/ MarkDone \/ MeshReturn

InitMesh == MeshInit /\ Idle("mesh")

SpecMesh == InitMesh /\ [][MeshNext]_vars

BcsNext == CallCreateBcs \/ ApplyConstraint

InitBcs == BcsInit /\ Idle("bcs")

SpecBcs == InitBcs /\ [][BcsNext]_vars

DriverNext ==
    \/ CallInitialize
    \/ CallPreSolveHook
    \/ AdvanceTime
    \/ CallStartTimestepHook
    \/ CallVelocityTentativeHook
    \/ SolveVelocity
    \/ CallPressureHook
    \/ SolvePressure
    \/ CallScalarHook
    \/ SolveScalar
    \/ SkipScalar
    \/ CallTemporalHook
    \/ CallTheendHook

InitDriver == DriverInit /\ Idle("driver")

SpecDriver == InitDriver /\ [][DriverNext]_vars

----------------------------------------------------------------------------
(* C1 *)

RECURSIVE RefMerge(_, _)
\* the deep merge of s into d, key by key
RefMerge(d, s) ==
    [k \in DOMAIN d \cup DOMAIN s |->
        IF k \notin DOMAIN s THEN d[k]
        ELSE IF k \in DOMAIN d /\ isdict(d[k]) /\ isdict(s[k])
             THEN Dict(RefMerge(d[k][2], s[k][2]))
             ELSE s[k]]

\* C1: recursive_update(dst, src) is a deep merge.  After the call dst has the
\* keys of both; a key of src whose value and dst's value are both mappings is
\* merged recursively (inner keys of src take src's value, inner keys only in
\* dst keep theirs); any other key of src takes src's value; keys of dst that
\* src does not mention keep their value.  The result equals the reference
\* merge, and {a:{x:1}} into {a:{x:0,y:2}} gives {a:{x:1,y:2}}.
C1_DeepMerge ==
    mpc = "done" =>
        /\ DOMAIN dst = DOMAIN dst_in \cup DOMAIN src
        /\ \A k \in DOMAIN dst_in \ DOMAIN src : dst[k] = dst_in[k]
        /\ \A k \in DOMAIN src :
              IF k \in DOMAIN dst_in /\ isdict(dst_in[k]) /\ isdict(src[k])
              THEN /\ isdict(dst[k])
                   /\ DOMAIN dst[k][2] = DOMAIN dst_in[k][2] \cup DOMAIN src[k][2]
                   /\ \A j \in DOMAIN src[k][2] : dst[k][2][j] = src[k][2][j]
                   /\ \A j \in DOMAIN dst_in[k][2] \ DOMAIN src[k][2] :
                          dst[k][2][j] = dst_in[k][2][j]
              ELSE dst[k] = src[k]
        /\ dst = RefMerge(dst_in, src)
        /\ ( /\ src = [a |-> Dict([x |-> Leaf(1)])]
             /\ dst_in = [a |-> Dict([x |-> Leaf(0), y |-> Leaf(1)])] )
           => dst = [a |-> Dict([x |-> Leaf(1), y |-> Leaf(1)])]

\* the spec's example: a sibling key of a nested mapping survives the merge
C1_Witness ==
    /\ mpc = "done"
    /\ src = [a |-> Dict([x |-> Leaf(1)])]
    /\ dst_in = [a |-> Dict([x |-> Leaf(0), y |-> Leaf(1)])]
    /\ dst = [a |-> Dict([x |-> Leaf(1), y |-> Leaf(1)])]

----------------------------------------------------------------------------
(* C2 *)

----------------------------------------------------------------------------
(* C5 *)

Ranks == 0..(nprocs - 1)
Emitters == {r \in Ranks : out[r] # <<>>}

----------------------------------------------------------------------------
(* C6 *)

\* C6: every probe leaves memory and memory_vm non-negative, prev equal to the
\* value memory held before the probe and prev_vm to the value memory_vm held
\* before it (0 for the constructor's probe); a printed line reports the
\* cumulative values and the deltas new - previous.
C6_ProbeDelta ==
    [][ oasis_memory' # NoFields =>
          LET before == IF oasis_memory = NoFields
                        THEN [memory |-> 0, memory_vm |-> 0]
                        ELSE oasis_memory
          IN  /\ oasis_memory'.memory >= 0
              /\ oasis_memory'.memory_vm >= 0
              /\ oasis_memory'.prev = before.memory
              /\ oasis_memory'.prev_vm = before.memory_vm
              /\ \A i \in DOMAIN mout' :
                    mout'[i].fields =
                        <<oasis_memory'.memory - before.memory,
                          oasis_memory'.memory,
                          oasis_memory'.memory_vm - before.memory_vm,
                          oasis_memory'.memory_vm>> ]_vars

\* a later probe printed a line with a non-zero delta
C6_Witness ==
    /\ oasis_memory # NoFields
    /\ mout # <<>>
    /\ oasis_memory.prev = 1
    /\ oasis_memory.memory = 2
    /\ mout[1].fields[1] = 1

----------------------------------------------------------------------------
(* C7 *)

\* three times the exact centroid of a cell
Centroid3(c) ==
    LET vs == {Exact(v) : v \in CellVertices(c)}
        a == CHOOSE v \in vs : TRUE
        b == CHOOSE v \in vs \ {a} : TRUE
        d == CHOOSE v \in vs \ {a, b} : TRUE
    IN  <<a[1] + b[1] + d[1], a[2] + b[2] + d[2]>>

\* the cell's interior is in the sub-square where both coordinates exceed 0.25
InSubSquare(c) ==
    Centroid3(c)[1] > 3 * Quarter /\ Centroid3(c)[2] > 3 * Quarter

\* C7: for Nx = Ny = 40, mesh returns exactly the cells Submesh did not mark:
\* no returned cell is in the sub-square where both coordinates exceed 0.25 (nor
\* has a vertex strictly inside it), and every cell of the unit square outside
\* that sub-square is returned.
C7_LshapeCells ==
    mesh_pc = "done" =>
        /\ submesh = {c \in Cells : ~AllVerticesInside(c, roundoff)}
        /\ \A c \in submesh :
              /\ ~InSubSquare(c)
              /\ \A v \in CellVertices(c) :
                    ~(Exact(v)[1] > Quarter /\ Exact(v)[2] > Quarter)
        /\ \A c \in Cells : ~InSubSquare(c) => c \in submesh

\* the L-shaped domain was returned: 700 of the 1600 squares, the square next
\* below the corner (0.25, 0.25) among them and the square above it not
C7_Witness ==
    /\ mesh_pc = "done"
    /\ Cardinality(submesh) = 1400
    /\ 2 * (9 * Nx + 10) \in submesh
    /\ 2 * (10 * Nx + 10) \notin submesh

----------------------------------------------------------------------------
(* C4 *)

\* C4: the default create_bcs returns a mapping whose keys are exactly the
\* unknown names of sys_comp, each bound to an empty list; for an empty
\* sys_comp the mapping is empty.
C4_DefaultBcs ==
    (bpc = "done" /\ bproblem = "problems") =>
        /\ DOMAIN bcs = Range(sys_comp)
        /\ \A ui \in DOMAIN bcs : bcs[ui] = <<>>
        /\ sys_comp = <<>> => bcs = EmptyDict

C4_Witness ==
    /\ bpc = "done"
    /\ bproblem = "problems"
    /\ sys_comp = <<"u0", "u1", "p">>
    /\ DOMAIN bcs = {"u0", "u1", "p"}
    /\ bcs["p"] = <<>>

----------------------------------------------------------------------------
(* C10 *)

\* C10: Lshape's create_bcs returns an entry for every unknown of sys_comp (u0
\* and u1: the no-slip walls constraint; p: the inlet value p_in, then the
\* outlet value 0; any other unknown: no constraint), and a constraint's
\* predicate selects a point only if on_boundary is true.
C10_LshapeBcs ==
    (bpc = "done" /\ bproblem = "Lshape") =>
        /\ \A ui \in Range(sys_comp) :
              /\ ui \in DOMAIN bcs
              /\ bcs[ui] = CASE ui \in {"u0", "u1"} ->
                                  <<DirichletBC("V", "0.0", "walls")>>
                             [] ui = "p" ->
                                  <<DirichletBC("Q", "p_in", "inlet"),
                                    DirichletBC("Q", "0.0", "outlet")>>
                             [] OTHER -> <<>>
        /\ applied.selected => applied.on_boundary

----------------------------------------------------------------------------
(* C3 *)

\* the driver is about to call a hook that is bound to its default
AtDefaultHook ==
    \/ /\ dpc \in {"initialize", "velocity_tentative_hook", "pressure_hook",
                   "scalar_hook", "start_timestep_hook", "temporal_hook",
                   "pre_solve_hook"}
       /\ dpc \notin Overridden(problem)
       /\ dpc = "scalar_hook" => ns["scalar_components"] # <<>>
    \/ dpc = "advance" /\ ns["tstep"] >= MaxSteps

\* C3: a call of a default hook returns None or an empty mapping, raises no
\* error whatever keys the context holds, and leaves the context (the
\* parameters in it included) and the module state unchanged.
C3_DefaultHooksNoOp ==
    [][ AtDefaultHook =>
          /\ ret' \in {Leaf(None), Dict(EmptyDict)}
          /\ err' = None
          /\ ns' = ns
          /\ p_in_t' = p_in_t
          /\ plots' = plots ]_vars

\* a run of the default problem module reached its end through every hook
C3_Witness ==
    /\ problem = "problems"
    /\ dpc = "done"
    /\ ns["tstep"] = MaxSteps
    /\ ns["scalar_components"] # <<>>
    /\ ret = Leaf(None)
    /\ err = None

----------------------------------------------------------------------------
(* C8 *)

\* C8: with Lshape, at every sub-solve (and the hook before it) and at every
\* end-of-timestep hook, p_in.t is the driver's current time t; the
\* start-of-timestep hook sets it and changes nothing else.
C8_InletTime ==
    /\ []( ( /\ problem = "Lshape"
             /\ dpc \in {"velocity_tentative_hook", "velocity_solve",
                         "pressure_hook", "pressure_solve", "scalar_hook",
                         "scalar_solve", "temporal_hook"} )
           => p_in_t = ns["t"] )
    /\ [][ (problem = "Lshape" /\ dpc = "start_timestep_hook") =>
              /\ p_in_t' = ns["t"]
              /\ ns' = ns
              /\ plots' = plots
              /\ ret' = Leaf(None)
              /\ err' = None ]_vars

\* the pressure solve of a later timestep, the inlet pressure at that time
C8_Witness ==
    /\ problem = "Lshape"
    /\ dpc = "pressure_solve"
    /\ ns["tstep"] = 3
    /\ ns["t"] = 3
    /\ p_in_t = 3

----------------------------------------------------------------------------
(* C9 *)

\* C9: with Lshape, no hook call fails for a missing key: at every call of
\* temporal_hook the context binds tstep, q_, u_, plot_interval, uv and Vv; the
\* hook draws its two plots and assigns the projected velocity to uv when tstep
\* is a multiple of plot_interval, and otherwise changes nothing.
C9_TemporalHook ==
    /\ [](problem = "Lshape" => err = None)
    /\ [][ (problem = "Lshape" /\ dpc = "temporal_hook") =>
              /\ {"tstep", "q_", "u_", "uv", "Vv", "plot_interval"} \subseteq DOMAIN ns
              /\ IF ns["tstep"] % ns["plot_interval"] = 0
                 THEN /\ plots' = plots \o <<"Pressure", "Velocity">>
                      /\ ns' = [ns EXCEPT !["uv"] = ns["u_"]]
                 ELSE /\ plots' = plots
                      /\ ns' = ns
              /\ p_in_t' = p_in_t ]_vars

\* plot_interval 2: timestep 1 passed without a plot, timestep 2 plotted
C9_Witness ==
    /\ problem = "Lshape"
    /\ dpc = "advance"
    /\ ns["plot_interval"] = 2
    /\ ns["tstep"] = 2
    /\ plots = <<"Pressure", "Velocity">>
    /\ ns["uv"] = 2

=============================================================================
